---------------------------- MODULE Spec2Model ----------------------------
(***************************************************************************)
(* Model of the ray-casting core of Proyecto2 (Rust): Cube::ray_intersect, *)
(* Texture::get_color_at, reflect, refract, offset_origin, cast_shadow and *)
(* cast_ray.                                                               *)
(*                                                                         *)
(* f32 is modelled as a fixed-point number with resolution 1/Scale,        *)
(* extended with +infinity, -infinity and NaN, which follow the IEEE-754   *)
(* rules the code relies on (x * inf, 0 * inf = NaN, comparisons with NaN  *)
(* are false).  Finite results are truncated towards zero, so that every   *)
(* operation is sign-symmetric as in IEEE arithmetic.  Signed zeros are    *)
(* not distinguished.                                                      *)
(***************************************************************************)
EXTENDS Integers, Sequences, FiniteSets, TLC

VARIABLES pc, inp, out

vars == <<pc, inp, out>>

-----------------------------------------------------------------------------
(* f32 *)

\* One unit of the fixed-point grid is 1/Scale; ORIGIN_BIAS = 1e-4 is one unit.
Scale == 10000

RootScale == 100

Fin(n) == [k |-> "fin", v |-> n]

Inf == [k |-> "inf", v |-> 1]

NegInf == [k |-> "inf", v |-> -1]

NaN == [k |-> "nan", v |-> 0]

Zero == Fin(0)

One == Fin(Scale)

IsNaN(a) == a.k = "nan"

IsInf(a) == a.k = "inf"

IsFin(a) == a.k = "fin"

Abs(n) == IF n < 0 THEN -n ELSE n

Sgn(n) == IF n < 0 THEN -1 ELSE IF n > 0 THEN 1 ELSE 0

\* Sign used for products with infinity: zero counts as positive.
Sgp(n) == IF n < 0 THEN -1 ELSE 1

MaxInt(a, b) == IF a >= b THEN a ELSE b

MinInt(a, b) == IF a <= b THEN a ELSE b

\* Truncated fixed-point product, evaluated without leaving 32 bits.
MulFin(a, b) ==
    LET hi == MaxInt(Abs(a), Abs(b))
        lo == MinInt(Abs(a), Abs(b))
    IN  Sgn(a) * Sgn(b) * ((hi \div Scale) * lo + ((hi % Scale) * lo) \div Scale)

\* Truncated fixed-point quotient, b # 0.
DivFin(a, b) ==
    LET x == Abs(a)
        y == Abs(b)
    IN  Sgn(a) * Sgn(b) * ((x \div y) * Scale + ((x % y) * Scale) \div y)

RECURSIVE IsqrtIter(_, _, _)
IsqrtIter(n, lo, hi) ==
    IF lo >= hi THEN lo
    ELSE LET mid == (lo + hi + 1) \div 2
         IN  IF mid * mid <= n THEN IsqrtIter(n, mid, hi)
             ELSE IsqrtIter(n, lo, mid - 1)

\* Largest r with r*r <= n, n >= 0.
Isqrt(n) == IsqrtIter(n, 0, 46340)

\* Square root of a finite non-negative value.
SqrtFin(a) ==
    IF a <= 200000 THEN Isqrt(a * Scale) ELSE Isqrt(a) * RootScale

FNeg(a) == [a EXCEPT !.v = -a.v]

FAdd(a, b) ==
    IF IsNaN(a) \/ IsNaN(b) THEN NaN
    ELSE IF IsInf(a) /\ IsInf(b) THEN (IF a.v = b.v THEN a ELSE NaN)
    ELSE IF IsInf(a) THEN a
    ELSE IF IsInf(b) THEN b
    ELSE Fin(a.v + b.v)

FSub(a, b) == FAdd(a, FNeg(b))

FMul(a, b) ==
    IF IsNaN(a) \/ IsNaN(b) THEN NaN
    ELSE IF IsInf(a) \/ IsInf(b)
         THEN (IF a.v = 0 \/ b.v = 0 THEN NaN
               ELSE [k |-> "inf", v |-> Sgn(a.v) * Sgn(b.v)])
    ELSE Fin(MulFin(a.v, b.v))

FDiv(a, b) ==
    IF IsNaN(a) \/ IsNaN(b) THEN NaN
    ELSE IF IsInf(a) THEN (IF IsInf(b) THEN NaN
                           ELSE [k |-> "inf", v |-> a.v * Sgp(b.v)])
    ELSE IF IsInf(b) THEN Zero
    ELSE IF b.v = 0 THEN (IF a.v = 0 THEN NaN
                          ELSE [k |-> "inf", v |-> Sgn(a.v)])
    ELSE Fin(DivFin(a.v, b.v))

\* a < b; false when either is NaN.
FLt(a, b) ==
    IF IsNaN(a) \/ IsNaN(b) THEN FALSE
    ELSE IF IsInf(a) THEN a.v = -1 /\ ~(IsInf(b) /\ b.v = -1)
    ELSE IF IsInf(b) THEN b.v = 1
    ELSE a.v < b.v

FGt(a, b) == FLt(b, a)

FEq(a, b) == ~IsNaN(a) /\ ~IsNaN(b) /\ a = b

FLe(a, b) == FLt(a, b) \/ FEq(a, b)

FGe(a, b) == FLe(b, a)

\* f32::max and f32::min return the other operand when one is NaN.
FMax(a, b) == IF IsNaN(a) THEN b ELSE IF IsNaN(b) THEN a
              ELSE IF FLt(a, b) THEN b ELSE a

FMin(a, b) == IF IsNaN(a) THEN b ELSE IF IsNaN(b) THEN a
              ELSE IF FLt(b, a) THEN b ELSE a

\* f32::clamp keeps NaN.
FClamp(x, lo, hi) ==
    IF IsNaN(x) THEN NaN ELSE IF FLt(x, lo) THEN lo ELSE IF FGt(x, hi) THEN hi ELSE x

FAbs(a) == [a EXCEPT !.v = Abs(a.v)]

\* a % b with the sign of a (fmod).
FRem(a, b) ==
    IF IsNaN(a) \/ IsNaN(b) \/ IsInf(a) THEN NaN
    ELSE IF IsInf(b) THEN a
    ELSE IF b.v = 0 THEN NaN
    ELSE Fin(Sgn(a.v) * (Abs(a.v) % Abs(b.v)))

FSqrt(a) ==
    IF IsNaN(a) THEN NaN
    ELSE IF IsInf(a) THEN (IF a.v = 1 THEN Inf ELSE NaN)
    ELSE IF a.v < 0 THEN NaN
    ELSE Fin(SqrtFin(a.v))

RECURSIVE PowIter(_, _)
PowIter(b, n) == IF n = 0 THEN One ELSE FMul(b, PowIter(b, n - 1))

\* f32::powf for the whole, non-negative exponents the program uses
\* (2.0 and the materials' specular exponents).
FPowf(b, e) ==
    IF IsNaN(e) THEN NaN
    ELSE IF e.v = 0 THEN One
    ELSE IF IsNaN(b) THEN NaN
    ELSE PowIter(b, e.v \div Scale)

\* `x as usize`: NaN and negatives give 0, the fraction is dropped.
FToUsize(a) ==
    IF IsNaN(a) THEN 0
    ELSE IF IsInf(a) THEN (IF a.v = 1 THEN 2147483647 ELSE 0)
    ELSE IF a.v < 0 THEN 0
    ELSE a.v \div Scale

\* `n as f32`
UsizeToF(n) == Fin(n * Scale)

-----------------------------------------------------------------------------
(* Vec3 *)

Vec3(x, y, z) == [x |-> x, y |-> y, z |-> z]

\* A vector given in grid units.
V(x, y, z) == Vec3(Fin(x), Fin(y), Fin(z))

VAdd(a, b) == Vec3(FAdd(a.x, b.x), FAdd(a.y, b.y), FAdd(a.z, b.z))

VSub(a, b) == Vec3(FSub(a.x, b.x), FSub(a.y, b.y), FSub(a.z, b.z))

VNeg(a) == Vec3(FNeg(a.x), FNeg(a.y), FNeg(a.z))

VScale(a, s) == Vec3(FMul(a.x, s), FMul(a.y, s), FMul(a.z, s))

VDot(a, b) == FAdd(FAdd(FMul(a.x, b.x), FMul(a.y, b.y)), FMul(a.z, b.z))

VMagnitude(a) == FSqrt(VDot(a, a))

VNormalize(a) ==
    LET m == VMagnitude(a)
    IN  Vec3(FDiv(a.x, m), FDiv(a.y, m), FDiv(a.z, m))

-----------------------------------------------------------------------------
(* Color, Texture, Material, Light *)

\* Color: three channels with channel-wise addition and scaling by an f32;
\* nothing is clamped while colours are accumulated.
Color(r, g, b) == [r |-> Fin(r * Scale), g |-> Fin(g * Scale), b |-> Fin(b * Scale)]

ColorBlack == Color(0, 0, 0)

ColorAdd(a, b) == [r |-> FAdd(a.r, b.r), g |-> FAdd(a.g, b.g), b |-> FAdd(a.b, b.b)]

ColorMul(a, s) == [r |-> FMul(a.r, s), g |-> FMul(a.g, s), b |-> FMul(a.b, s)]

SKYBOX_COLOR == Color(68, 142, 228)

\* Option<T>: None is the empty sequence, Some(x) is <<x>>.
None == <<>>

Some(x) == <<x>>

\* Texture::new: the construction panics unless data.len() == width * height.
TextureNew(data, width, height) ==
    IF Len(data) = width * height
    THEN [ok |-> TRUE, data |-> data, width |-> width, height |-> height]
    ELSE [ok |-> FALSE, data |-> <<>>, width |-> 0, height |-> 0]

\* get_color_at with the two `.min(.. - 1)` lines left out.
TextureIndexUnclamped(t, u, v) ==
    IF Len(t.data) = 0 THEN -1
    ELSE LET uc == FClamp(u, Zero, One)
             vc == FClamp(v, Zero, One)
             x  == FToUsize(FMul(uc, UsizeToF(t.width)))
             y  == FToUsize(FMul(vc, UsizeToF(t.height)))
         IN  y * t.width + x

\* The index get_color_at reads, or -1 when it returns black without reading.
TextureIndex(t, u, v) ==
    IF Len(t.data) = 0 THEN -1
    ELSE LET uc == FClamp(u, Zero, One)
             vc == FClamp(v, Zero, One)
             x0 == FToUsize(FMul(uc, UsizeToF(t.width)))
             y0 == FToUsize(FMul(vc, UsizeToF(t.height)))
             x  == MinInt(x0, t.width - 1)
             y  == MinInt(y0, t.height - 1)
         IN  y * t.width + x

\* data[i] panics when i is out of bounds.
GetColorAt(t, u, v) ==
    LET i == TextureIndex(t, u, v)
    IN  IF i = -1 THEN [panic |-> FALSE, color |-> ColorBlack, index |-> i]
        ELSE IF i >= 0 /\ i < Len(t.data)
             THEN [panic |-> FALSE, color |-> t.data[i + 1], index |-> i]
        ELSE [panic |-> TRUE, color |-> ColorBlack, index |-> i]

Material(diffuse, specular, albedo, refractive_index, texture) ==
    [diffuse |-> diffuse, specular |-> specular, albedo |-> albedo,
     refractive_index |-> refractive_index, texture |-> texture]

MaterialBlack == Material(ColorBlack, Zero, <<Zero, Zero, Zero, Zero>>, Zero, None)

Light(position, color, intensity) ==
    [position |-> position, color |-> color, intensity |-> intensity]

-----------------------------------------------------------------------------
(* Cube and Intersect *)

Cube(min, max, material) == [min |-> min, max |-> max, material |-> material]

Intersect(hit, distance, point, normal, material, uv) ==
    [is_intersecting |-> hit, distance |-> distance, point |-> point,
     normal |-> normal, material |-> material, uv |-> uv]

IntersectEmpty == Intersect(FALSE, Inf, V(0, 0, 0), V(0, 0, 0), MaterialBlack, None)

\* 1e-3, the tolerance of get_normal.
FACE_TOLERANCE == 10

size(cube) == VSub(cube.max, cube.min)

\* get_normal with the absolute value of the plane distances forgotten.
get_normal_no_abs(cube, point) ==
    LET tol == Fin(FACE_TOLERANCE)
    IN  IF FLt(FSub(point.x, cube.min.x), tol) THEN V(-Scale, 0, 0)
        ELSE IF FLt(FSub(point.x, cube.max.x), tol) THEN V(Scale, 0, 0)
        ELSE IF FLt(FSub(point.y, cube.min.y), tol) THEN V(0, -Scale, 0)
        ELSE IF FLt(FSub(point.y, cube.max.y), tol) THEN V(0, Scale, 0)
        ELSE IF FLt(FSub(point.z, cube.min.z), tol) THEN V(0, 0, -Scale)
        ELSE V(0, 0, Scale)

get_normal(cube, point) ==
    LET tol == Fin(FACE_TOLERANCE)
    IN  IF FLt(FAbs(FSub(point.x, cube.min.x)), tol) THEN V(-Scale, 0, 0)
        ELSE IF FLt(FAbs(FSub(point.x, cube.max.x)), tol) THEN V(Scale, 0, 0)
        ELSE IF FLt(FAbs(FSub(point.y, cube.min.y)), tol) THEN V(0, -Scale, 0)
        ELSE IF FLt(FAbs(FSub(point.y, cube.max.y)), tol) THEN V(0, Scale, 0)
        ELSE IF FLt(FAbs(FSub(point.z, cube.min.z)), tol) THEN V(0, 0, -Scale)
        ELSE V(0, 0, Scale)

calculate_uv(cube, point, normal) ==
    LET local_point == VSub(point, cube.min)
        sz == size(cube)
        uv == IF FGt(FAbs(normal.x), Zero)
              THEN <<FRem(FDiv(local_point.z, sz.z), One), FRem(FDiv(local_point.y, sz.y), One)>>
              ELSE IF FGt(FAbs(normal.y), Zero)
              THEN <<FRem(FDiv(local_point.x, sz.x), One), FRem(FDiv(local_point.z, sz.z), One)>>
              ELSE <<FRem(FDiv(local_point.x, sz.x), One), FRem(FDiv(local_point.y, sz.y), One)>>
    IN  <<FAbs(uv[1]), FAbs(uv[2])>>

\* 1.0 / d, or +infinity when the component is exactly zero.
inv_dir(d) == IF ~FEq(d, Zero) THEN FDiv(One, d) ELSE Inf

\* The pair (a, b), swapped when a > b.
Ordered(a, b) == IF FGt(a, b) THEN <<b, a>> ELSE <<a, b>>

\* The (near, far) parameters at which the ray crosses the two planes of one axis.
slab(lo, hi, o, d) ==
    Ordered(FMul(FSub(lo, o), inv_dir(d)), FMul(FSub(hi, o), inv_dir(d)))

\* The overlap tests on the three (near, far) pairs: whether the ray is kept
\* and the entry parameter tmin.
slab_overlap(tx, ty, tz) ==
    IF FGt(tx[1], ty[2]) \/ FGt(ty[1], tx[2]) THEN [hit |-> FALSE, tmin |-> tx[1]]
    ELSE LET tmin1 == IF FGt(ty[1], tx[1]) THEN ty[1] ELSE tx[1]
             tmax1 == IF FLt(ty[2], tx[2]) THEN ty[2] ELSE tx[2]
         IN  IF FGt(tmin1, tz[2]) \/ FGt(tz[1], tmax1) THEN [hit |-> FALSE, tmin |-> tmin1]
             ELSE [hit |-> TRUE, tmin |-> IF FGt(tz[1], tmin1) THEN tz[1] ELSE tmin1]

\* The Intersect built for the entry parameter tmin.
hit_at(cube, origin, direction, tmin) ==
    LET point == VAdd(origin, VScale(direction, tmin))
        normal == get_normal(cube, point)
    IN  Intersect(TRUE, tmin, point, normal, cube.material,
                  Some(calculate_uv(cube, point, normal)))

\* The result of ray_intersect for the outcome t of the overlap tests.
hit_or_empty(cube, origin, direction, t) ==
    IF t.hit THEN hit_at(cube, origin, direction, t.tmin) ELSE IntersectEmpty

ray_intersect(cube, origin, direction) ==
    hit_or_empty(cube, origin, direction,
                 slab_overlap(slab(cube.min.x, cube.max.x, origin.x, direction.x),
                              slab(cube.min.y, cube.max.y, origin.y, direction.y),
                              slab(cube.min.z, cube.max.z, origin.z, direction.z)))

-----------------------------------------------------------------------------
(* reflect, refract, offset_origin, cast_shadow, cast_ray *)

\* 1e-4
ORIGIN_BIAS == 1

offset_origin(intersect, direction) ==
    LET offset == VScale(intersect.normal, Fin(ORIGIN_BIAS))
    IN  IF FLt(VDot(direction, intersect.normal), Zero)
        THEN VSub(intersect.point, offset)
        ELSE VAdd(intersect.point, offset)

reflect(incident, normal) ==
    VSub(incident, VScale(normal, FMul(Fin(2 * Scale), VDot(incident, normal))))

\* The locals of refract up to the discriminant k.
refract_locals(incident, normal, eta_t) ==
    LET cosi == FNeg(FMin(FMax(VDot(incident, normal), Fin(-Scale)), One))
        flip == FLt(cosi, Zero)
        n_cosi == IF flip THEN FNeg(cosi) ELSE cosi
        eta == IF flip THEN FDiv(One, eta_t) ELSE eta_t
        n_normal == IF flip THEN VNeg(normal) ELSE normal
    IN  [cosi |-> cosi, n_cosi |-> n_cosi, eta |-> eta, n_normal |-> n_normal,
         k |-> FSub(One, FMul(FMul(eta, eta), FSub(One, FMul(n_cosi, n_cosi))))]

\* refract with the arguments of reflect exchanged.
refract_swapped(incident, normal, eta_t) ==
    LET l == refract_locals(incident, normal, eta_t)
    IN  IF FLt(l.k, Zero) THEN reflect(l.n_normal, incident)
        ELSE VAdd(VScale(incident, l.eta),
                  VScale(l.n_normal, FSub(FMul(l.eta, l.n_cosi), FSqrt(l.k))))

refract(incident, normal, eta_t) ==
    LET l == refract_locals(incident, normal, eta_t)
    IN  IF FLt(l.k, Zero) THEN reflect(incident, l.n_normal)
        ELSE VAdd(VScale(incident, l.eta),
                  VScale(l.n_normal, FSub(FMul(l.eta, l.n_cosi), FSqrt(l.k))))

\* A hard shadow: every occluder darkens completely.
shadow_value_hard(distance, light_distance) == One

\* 1.0 - (distance / light_distance).min(1.0).powf(2.0)
shadow_value(distance, light_distance) ==
    FSub(One, FPowf(FMin(FDiv(distance, light_distance), One), Fin(2 * Scale)))

\* The loop of cast_shadow from object i on.  The result records the value
\* returned, how many objects were tested and which one occluded (0: none).
\* The loop of cast_shadow without its early return: a later occluder
\* replaces an earlier one.
shadow_test_last(shadow_intersect, light_distance, i, remaining) ==
    IF remaining.occluder # 0 THEN remaining
    ELSE IF shadow_intersect.is_intersecting
            /\ FLt(shadow_intersect.distance, light_distance)
    THEN [intensity |-> shadow_value(shadow_intersect.distance, light_distance),
          tested |-> i, occluder |-> i]
    ELSE remaining

\* One iteration of the loop of cast_shadow: the early return for object i,
\* or the outcome of the remaining iterations.
shadow_test(shadow_intersect, light_distance, i, remaining) ==
    IF shadow_intersect.is_intersecting /\ FLt(shadow_intersect.distance, light_distance)
    THEN [intensity |-> shadow_value(shadow_intersect.distance, light_distance),
          tested |-> i, occluder |-> i]
    ELSE remaining

RECURSIVE shadow_scan(_, _, _, _, _)
shadow_scan(shadow_ray_origin, light_dir, light_distance, objects, i) ==
    IF i > Len(objects) THEN [intensity |-> Zero, tested |-> i - 1, occluder |-> 0]
    ELSE shadow_test(ray_intersect(objects[i], shadow_ray_origin, light_dir),
                     light_distance, i,
                     shadow_scan(shadow_ray_origin, light_dir, light_distance, objects, i + 1))

cast_shadow(intersect, light, objects) ==
    LET light_dir == VNormalize(VSub(light.position, intersect.point))
        light_distance == VMagnitude(VSub(light.position, intersect.point))
        shadow_ray_origin == offset_origin(intersect, light_dir)
    IN  shadow_scan(shadow_ray_origin, light_dir, light_distance, objects, 1)

\* The scan of cast_ray from object i on: the nearest hit so far and the
\* index of the object it belongs to (0: none).
\* One iteration of the scan of cast_ray: the hit i of object index i
\* replaces the best so far when it is strictly nearer.
nearer(h, best, i) ==
    IF h.is_intersecting /\ FLt(h.distance, best.zbuffer)
    THEN [zbuffer |-> h.distance, intersect |-> h, selected |-> i]
    ELSE best

RECURSIVE nearest_scan(_, _, _, _, _)
nearest_scan(ray_origin, ray_direction, objects, i, best) ==
    IF i > Len(objects) THEN best
    ELSE nearest_scan(ray_origin, ray_direction, objects, i + 1,
                      nearer(ray_intersect(objects[i], ray_origin, ray_direction), best, i))

\* The colour a hit starts from: the texture sample or the flat diffuse colour.
base_color(intersect) ==
    IF intersect.material.texture # None
    THEN LET uv == IF intersect.uv # None THEN intersect.uv[1] ELSE <<Zero, Zero>>
         IN  GetColorAt(intersect.material.texture[1], uv[1], uv[2]).color
    ELSE intersect.material.diffuse

\* The loop over the lights from light i on; acc is final_color.
RECURSIVE light_loop(_, _, _, _, _, _, _)
light_loop(intersect, view_dir, objects, lights, i, acc, shadows) ==
    IF i > Len(lights) THEN [color |-> acc, shadows |-> shadows]
    ELSE LET light == lights[i]
             material == intersect.material
             light_dir == VNormalize(VSub(light.position, intersect.point))
             reflect_dir == VNormalize(reflect(VNeg(light_dir), intersect.normal))
             shadow == cast_shadow(intersect, light, objects)
             light_intensity == FMul(light.intensity, FSub(One, shadow.intensity))
             diffuse_intensity == FMin(FMax(VDot(intersect.normal, light_dir), Zero), One)
             diffuse == ColorMul(ColorMul(ColorMul(acc, material.albedo[1]),
                                          diffuse_intensity), light_intensity)
             specular_intensity == FPowf(FMax(VDot(view_dir, reflect_dir), Zero),
                                         material.specular)
             specular == ColorMul(ColorMul(ColorMul(light.color, material.albedo[2]),
                                           specular_intensity), light_intensity)
         IN  light_loop(intersect, view_dir, objects, lights, i + 1,
                        ColorAdd(acc, ColorAdd(diffuse, specular)),
                        Append(shadows, shadow))

\* The record of one invocation: its arguments, the colour returned, the
\* number of objects scanned, the hit selected, the cast_shadow results in
\* call order and the recursive invocations in call order.
Invocation(o, d, depth, color, scanned, best, shadows, calls) ==
    [ray_origin |-> o, ray_direction |-> d, depth |-> depth, color |-> color,
     scanned |-> scanned, selected |-> best.selected, intersect |-> best.intersect,
     shadows |-> shadows, calls |-> calls]

NoHit == [zbuffer |-> Inf, intersect |-> IntersectEmpty, selected |-> 0]

\* The recursion cut-off tested one level too late.
depth_exceeded_late(depth) == depth > 4

\* `if depth > 3`
depth_exceeded(depth) == depth > 3

\* The test for a miss left out.
is_miss_never(intersect) == FALSE

\* `if !intersect.is_intersecting`
is_miss(intersect) == ~intersect.is_intersecting

RECURSIVE cast_ray(_, _, _, _, _)

\* The refraction branch: the hit colour blended with the recursive result sub.
refracted(ray_origin, ray_direction, objects, depth, best, sub) ==
    Invocation(ray_origin, ray_direction, depth,
               ColorAdd(ColorMul(base_color(best.intersect), best.intersect.material.albedo[1]),
                        ColorMul(sub.color, best.intersect.material.albedo[4])),
               Len(objects), best, <<>>, <<sub>>)

\* The lighting branch: lit is the outcome of the loop over the lights.
lighted(ray_origin, ray_direction, objects, depth, best, lit) ==
    Invocation(ray_origin, ray_direction, depth, lit.color, Len(objects), best,
               lit.shadows, <<>>)

\* cast_ray after the scan, for the refracted direction of the hit.
refract_branch(ray_origin, ray_direction, objects, lights, depth, best, refracted_dir) ==
    refracted(ray_origin, ray_direction, objects, depth, best,
              cast_ray(offset_origin(best.intersect, refracted_dir), refracted_dir,
                       objects, lights, depth + 1))

\* cast_ray after the scan: best holds the nearest hit.
shade(ray_origin, ray_direction, objects, lights, depth, best) ==
    IF is_miss(best.intersect)
    THEN Invocation(ray_origin, ray_direction, depth, SKYBOX_COLOR,
                    Len(objects), best, <<>>, <<>>)
    ELSE IF FGt(best.intersect.material.refractive_index, One)
    THEN refract_branch(ray_origin, ray_direction, objects, lights, depth, best,
                        refract(ray_direction, best.intersect.normal,
                                best.intersect.material.refractive_index))
    ELSE lighted(ray_origin, ray_direction, objects, depth, best,
                 light_loop(best.intersect,
                            VNormalize(VSub(ray_origin, best.intersect.point)),
                            objects, lights, 1, base_color(best.intersect), <<>>))

cast_ray(ray_origin, ray_direction, objects, lights, depth) ==
    IF depth_exceeded(depth)
    THEN Invocation(ray_origin, ray_direction, depth, SKYBOX_COLOR, 0, NoHit, <<>>, <<>>)
    ELSE shade(ray_origin, ray_direction, objects, lights, depth,
               nearest_scan(ray_origin, ray_direction, objects, 1, NoHit))

-----------------------------------------------------------------------------
(* Materials and boxes of the checked scenes *)

\* Opaque, untextured: albedo [0.9, 0.1, 0, 0], refractive_index 0.
MatOpaque(diffuse) ==
    Material(diffuse, Fin(10 * Scale), <<Fin(9000), Fin(1000), Zero, Zero>>, Zero, None)

MatRed == MatOpaque(Color(200, 30, 30))

\* Refractive: refractive_index 1.5, albedo [0.5, 0.1, 0, 0.5].
MatGlass ==
    Material(Color(20, 40, 60), Fin(10 * Scale), <<Fin(5000), Fin(1000), Zero, Fin(5000)>>,
             Fin(15000), None)

\* refractive_index exactly 1.0, with a non-zero albedo[3].
MatUnity ==
    Material(Color(10, 120, 10), Fin(2 * Scale), <<Fin(5000), Fin(5000), Zero, Fin(5000)>>,
             One, None)

\* A 2 x 2 texture, built by Texture::new.
CheckerTexture ==
    TextureNew(<<Color(10, 10, 10), Color(90, 90, 90), Color(170, 170, 170), Color(250, 250, 250)>>,
               2, 2)

\* Opaque and textured, as the materials of main: black diffuse, exponent 15.
MatTextured ==
    Material(ColorBlack, Fin(15 * Scale), <<Fin(5000), Fin(3000), Zero, Zero>>, Zero,
             Some(CheckerTexture))

UnitBox == Cube(V(-5000, -5000, -5000), V(5000, 5000, 5000), MatRed)

SlabBox == Cube(V(-5000, -20000, 0), V(5000, 0, 20000), MatRed)

\* The unit box again, of glass.
GlassBox == Cube(V(-5000, -5000, -5000), V(5000, 5000, 5000), MatGlass)

\* Between the ray origins and the unit box.
FrontBox == Cube(V(-5000, -5000, -25000), V(5000, 5000, -15000), MatUnity)

\* Shares the plane z = -0.5 of its front face with the unit box.
WideBox == Cube(V(-10000, -10000, -5000), V(10000, 10000, 10000), MatTextured)

\* Next to the unit box: its face x = 0.5 is the unit box's face x = 0.5.
SideBox == Cube(V(5000, -5000, -5000), V(15000, 5000, 5000), MatRed)

-----------------------------------------------------------------------------
(* Specification of Cube::ray_intersect as a function of box and ray *)

IntersectBoxes == {UnitBox, SlabBox}

\* Coordinates of ray origins: outside, on a face plane, within 1e-3 of a
\* face plane, and inside.
OriginCoords == {-20000, -5000, -4995, 0, 5000, 20000}

DirectionCoords == {-Scale, 0, Scale, 2 * Scale}

IntersectInputs ==
    { [cube |-> c, origin |-> V(ox, oy, oz), direction |-> V(dx, dy, dz)] :
        c \in IntersectBoxes,
        ox \in OriginCoords, oy \in OriginCoords, oz \in OriginCoords,
        dx \in DirectionCoords, dy \in DirectionCoords, dz \in DirectionCoords }

InitIntersect ==
    /\ pc = "call"
    /\ inp \in { i \in IntersectInputs : i.direction # V(0, 0, 0) }
    /\ out = IntersectEmpty

ApplyRayIntersect ==
    /\ pc = "call"
    /\ out' = ray_intersect(inp.cube, inp.origin, inp.direction)
    /\ pc' = "ray_intersect"
    /\ UNCHANGED inp

NextIntersect == ApplyRayIntersect

SpecIntersect == InitIntersect /\ [][NextIntersect]_vars

-----------------------------------------------------------------------------
(* Properties of Cube::ray_intersect *)

Returned == pc = "ray_intersect"

Axes == {"x", "y", "z"}

Comp(v, a) == IF a = "x" THEN v.x ELSE IF a = "y" THEN v.y ELSE v.z

UnitVec(a, s) ==
    IF a = "x" THEN V(s * Scale, 0, 0)
    ELSE IF a = "y" THEN V(0, s * Scale, 0) ELSE V(0, 0, s * Scale)

AxisSlab(i, a) ==
    slab(Comp(i.cube.min, a), Comp(i.cube.max, a), Comp(i.origin, a), Comp(i.direction, a))

\* Every point p of the box has (p - origin) . direction < 0.
BoxBehind(i) ==
    LET far(a) == FMax(FMul(FSub(Comp(i.cube.min, a), Comp(i.origin, a)), Comp(i.direction, a)),
                       FMul(FSub(Comp(i.cube.max, a), Comp(i.origin, a)), Comp(i.direction, a)))
    IN  FLt(FAdd(FAdd(far("x"), far("y")), far("z")), Zero)

\* C3 (as claimed): a returned Intersect is either a hit at distance >= 0 or
\* the empty record with distance +infinity, and a box lying entirely behind
\* the ray origin is never reported as a hit.
C3_HitInFront ==
    Returned =>
        /\ out.is_intersecting => FGe(out.distance, Zero)
        /\ ~out.is_intersecting => out.distance = Inf
        /\ BoxBehind(inp) => ~out.is_intersecting

\* The three [near, far] intervals have a common point: no near exceeds a far.
NonEmptyCommon(i) ==
    \A a \in Axes, b \in Axes : ~FGt(AxisSlab(i, a)[1], AxisSlab(i, b)[2])

\* C9 (as claimed): ray_intersect reports a hit exactly when the three
\* per-axis intervals have a non-empty common intersection, the distance of
\* a hit is the largest of the three near values, and a miss has distance
\* +infinity.
C9_SlabTest ==
    Returned =>
        /\ out.is_intersecting <=> NonEmptyCommon(inp)
        /\ out.is_intersecting =>
              /\ \E a \in Axes : out.distance = AxisSlab(inp, a)[1]
              /\ \A a \in Axes : ~FLt(out.distance, AxisSlab(inp, a)[1])
        /\ ~out.is_intersecting => out.distance = Inf

\* The ray is perpendicular to the faces of axis a.
Perpendicular(d, a) ==
    /\ ~FEq(Comp(d, a), Zero)
    /\ \A b \in Axes \ {a} : FEq(Comp(d, b), Zero)

\* The point lies on one of the two faces of axis a.
OnFace(cube, point, a) ==
    /\ FEq(Comp(point, a), Comp(cube.min, a)) \/ FEq(Comp(point, a), Comp(cube.max, a))
    /\ \A b \in Axes \ {a} :
          FLe(Comp(cube.min, b), Comp(point, b)) /\ FLe(Comp(point, b), Comp(cube.max, b))

\* Outward unit normal of the face of axis a the point lies on.
FaceNormal(cube, point, a) ==
    IF FEq(Comp(point, a), Comp(cube.min, a)) THEN UnitVec(a, -1) ELSE UnitVec(a, 1)

\* The face planes in the order get_normal tests them.
FacePlanes(cube) ==
    << <<"x", cube.min.x>>, <<"x", cube.max.x>>, <<"y", cube.min.y>>,
       <<"y", cube.max.y>>, <<"z", cube.min.z>>, <<"z", cube.max.z>> >>

FaceIndex(cube, point, a) ==
    CHOOSE k \in 1..6 :
        /\ FacePlanes(cube)[k][1] = a
        /\ FEq(FacePlanes(cube)[k][2], Comp(point, a))
        /\ \A j \in 1..(k - 1) :
              ~(FacePlanes(cube)[j][1] = a /\ FEq(FacePlanes(cube)[j][2], Comp(point, a)))

\* The point is more than 1e-3 away from every plane tested before its face.
ClearOfEarlierPlanes(cube, point, a) ==
    \A j \in 1..(FaceIndex(cube, point, a) - 1) :
        FGt(FAbs(FSub(Comp(point, FacePlanes(cube)[j][1]), FacePlanes(cube)[j][2])),
            Fin(FACE_TOLERANCE))

UvInUnitSquare(uv) ==
    /\ uv # None
    /\ FLe(Zero, uv[1][1]) /\ FLt(uv[1][1], One)
    /\ FLe(Zero, uv[1][2]) /\ FLt(uv[1][2], One)

PerpendicularHit(a) ==
    /\ Returned
    /\ Perpendicular(inp.direction, a)
    /\ out.is_intersecting
    /\ FGe(out.distance, Zero)
    /\ OnFace(inp.cube, out.point, a)

-----------------------------------------------------------------------------
(* Specification of cast_ray as a function of scene, ray and depth *)

\* Longest list of cubes.
MaxCubes == 2

\* Longest list of lights.
MaxLights == 2

\* Largest depth cast_ray is first called with.
MaxDepth == 5

CubePool == {UnitBox, GlassBox, FrontBox, WideBox, SideBox}

LightPool ==
    {Light(V(0, 0, -35000), Color(255, 255, 255), One),
     Light(V(30000, 30000, -30000), Color(255, 200, 150), Fin(5000))}

\* The sequences of at most n different elements of S.
RECURSIVE Lists(_, _)
Lists(S, n) ==
    IF n = 0 THEN {<<>>}
    ELSE LET shorter == Lists(S, n - 1)
         IN  shorter \cup { Append(l, e) : l \in { m \in shorter : Len(m) = n - 1 },
                                           e \in S }

Distinct(l) == \A i \in 1..Len(l), j \in 1..Len(l) : i # j => l[i] # l[j]

Scenes == { l \in Lists(CubePool, MaxCubes) : Distinct(l) }

LightLists == { l \in Lists(LightPool, MaxLights) : Distinct(l) }

\* In front of the boxes, in the plane x = 0.5 of two faces, inside the unit
\* box, to the left of the boxes, above them.
RayOrigins ==
    {V(0, 0, -40000), V(5000, 0, -40000), V(0, 0, 0), V(-30000, 0, -40000), V(0, 30000, -40000)}

RayDirections == {V(0, 0, Scale), V(0, 0, -Scale), V(6000, 0, 8000)}

NoInvocation == Invocation(V(0, 0, 0), V(0, 0, 0), 0, ColorBlack, 0, NoHit, <<>>, <<>>)

Init ==
    /\ pc = "call"
    /\ inp \in [objects : Scenes, lights : LightLists, ray_origin : RayOrigins,
                ray_direction : RayDirections, depth : 0..MaxDepth]
    /\ out = NoInvocation

ApplyCastRay ==
    /\ pc = "call"
    /\ out' = cast_ray(inp.ray_origin, inp.ray_direction, inp.objects, inp.lights, inp.depth)
    /\ pc' = "cast_ray"
    /\ UNCHANGED inp

Next == ApplyCastRay

Spec == Init /\ [][Next]_vars

-----------------------------------------------------------------------------
(* Specification of refract as a function of its arguments *)

RefractCoords == {-Scale, -8000, -6000, 0, 6000, 8000, Scale}

RefractNormals ==
    {V(Scale, 0, 0), V(-Scale, 0, 0), V(0, Scale, 0), V(0, -Scale, 0),
     V(0, 0, Scale), V(0, 0, -Scale), V(0, 6000, 8000), V(-6000, 0, -8000)}

\* eta_t: below, at and above 1.
RefractIndices == {Fin(5000), One, Fin(15000), Fin(2 * Scale)}

InitRefract ==
    /\ pc = "call"
    /\ inp \in { [incident |-> V(x, y, z), normal |-> n, eta_t |-> e] :
                   x \in RefractCoords, y \in RefractCoords, z \in RefractCoords,
                   n \in RefractNormals, e \in RefractIndices }
    /\ out = V(0, 0, 0)

ApplyRefract ==
    /\ pc = "call"
    /\ out' = refract(inp.incident, inp.normal, inp.eta_t)
    /\ pc' = "refract"
    /\ UNCHANGED inp

NextRefract == ApplyRefract

SpecRefract == InitRefract /\ [][NextRefract]_vars

\* k < 0 for the arguments of the call.
NegativeDiscriminant == FLt(refract_locals(inp.incident, inp.normal, inp.eta_t).k, Zero)

\* C6: whenever refract computes a negative discriminant it returns the
\* mirror reflection incident - 2 (incident . normal) normal of the incident
\* direction about the original, unflipped normal.
C6_TotalInternalReflection ==
    pc = "refract" /\ NegativeDiscriminant =>
        out = VSub(inp.incident,
                   VScale(inp.normal, FMul(Fin(2 * Scale), VDot(inp.incident, inp.normal))))

\* Total internal reflection of an oblique ray leaving the surface (the
\* branch that flips the normal): the result is not the incident direction.
C6_Witness ==
    /\ pc = "refract"
    /\ NegativeDiscriminant
    /\ FLt(refract_locals(inp.incident, inp.normal, inp.eta_t).cosi, Zero)
    /\ out # inp.incident
    /\ out = reflect(inp.incident, inp.normal)

-----------------------------------------------------------------------------
(* Specification of Texture::new followed by Texture::get_color_at *)

\* Largest width and height of a texture.
MaxDim == 3

\* Texel i (0-based) of the checked textures: every texel has its own colour.
Texel(i) == Color(i + 1, 2 * i + 1, 255 - i)

TexelData(n) == [i \in 1..n |-> Texel(i - 1)]

\* u and v: NaN, infinities, below 0, inside, the boundaries, above 1.
UvValues ==
    {NaN, NegInf, Inf, Fin(-5000), Zero, Fin(2500), Fin(5000), Fin(9999), One, Fin(15000)}

InitTexture ==
    /\ pc = "new"
    /\ inp \in [width : 0..MaxDim, height : 0..MaxDim, len : 0..(MaxDim * MaxDim),
                u : UvValues, v : UvValues]
    /\ out = [tex |-> TextureNew(<<>>, 0, 0), res |-> GetColorAt(TextureNew(<<>>, 0, 0), Zero, Zero)]

NewTexture ==
    /\ pc = "new"
    /\ out' = [out EXCEPT !.tex = TextureNew(TexelData(inp.len), inp.width, inp.height)]
    /\ pc' = IF out'.tex.ok THEN "constructed" ELSE "panicked"
    /\ UNCHANGED inp

SampleTexture ==
    /\ pc = "constructed"
    /\ out' = [out EXCEPT !.res = GetColorAt(out.tex, inp.u, inp.v)]
    /\ pc' = "get_color_at"
    /\ UNCHANGED inp

NextTexture == NewTexture \/ SampleTexture

SpecTexture == InitTexture /\ [][NextTexture]_vars

\* min(floor(clamp(c, 0, 1) * n), n - 1) for a coordinate c that is not NaN.
ClampedTexel(c, n) ==
    LET units == IF IsInf(c) THEN (IF c.v = 1 THEN Scale ELSE 0)
                 ELSE IF c.v < 0 THEN 0 ELSE IF c.v > Scale THEN Scale ELSE c.v
    IN  MinInt((units * n) \div Scale, n - 1)

\* C5: on a texture with data.len() == width*height, get_color_at never
\* indexes outside data; for u, v that are numbers it reads index y*width + x
\* with x = min(floor(clamp(u,0,1)*width), width-1) and
\* y = min(floor(clamp(v,0,1)*height), height-1); at u = v = 1 that is
\* (height-1)*width + (width-1); an empty texture gives black.
C5_SampleInBounds ==
    pc = "get_color_at" =>
        /\ Len(out.tex.data) = inp.width * inp.height
        /\ ~out.res.panic
        /\ inp.len = 0 => out.res.color = ColorBlack
        /\ inp.len > 0 =>
              /\ out.res.index \in 0..(inp.len - 1)
              /\ out.res.color = Texel(out.res.index)
              /\ ~IsNaN(inp.u) /\ ~IsNaN(inp.v) =>
                    out.res.index = ClampedTexel(inp.v, inp.height) * inp.width
                                      + ClampedTexel(inp.u, inp.width)
              /\ inp.u = One /\ inp.v = One =>
                    out.res.index = (inp.height - 1) * inp.width + (inp.width - 1)

\* get_color_at(1.0, 1.0) has read the last texel of a 3 x 2 texture.
C5_Witness ==
    /\ pc = "get_color_at"
    /\ inp.width = 3 /\ inp.height = 2
    /\ inp.u = One /\ inp.v = One
    /\ out.res.index = 5
    /\ out.res.color = Texel(5)

-----------------------------------------------------------------------------
(* Properties of cast_ray and cast_shadow *)

\* The invocation and the invocations it made, recursively.
RECURSIVE Invocations(_)
Invocations(inv) ==
    {inv} \cup (IF inv.calls = <<>> THEN {} ELSE Invocations(inv.calls[1]))

Done == pc = "cast_ray"

\* What each cube of the scene reports for the ray of an invocation.
Reported(inv, i) == ray_intersect(inp.objects[i], inv.ray_origin, inv.ray_direction)

Hitting(inv) == { i \in 1..Len(inp.objects) : Reported(inv, i).is_intersecting }

\* C1: invoked with depth >= 4, cast_ray returns the sky colour without
\* scanning any cube, casting any shadow ray or calling itself, whatever the
\* scene holds.
C1_DepthCutoff ==
    Done =>
        \A inv \in Invocations(out) :
            inv.depth >= 4 =>
                /\ inv.color = SKYBOX_COLOR
                /\ inv.scanned = 0
                /\ inv.selected = 0
                /\ inv.shadows = <<>>
                /\ inv.calls = <<>>

\* A chain of refractions from the primary ray has reached depth 4, in a
\* scene with cubes and a light, and the primary ray's colour is not the sky.
C1_Witness ==
    /\ Done
    /\ inp.depth = 0
    /\ inp.lights # <<>>
    /\ out.color # SKYBOX_COLOR
    /\ \E inv \in Invocations(out) : inv.depth = 4 /\ inv.color = SKYBOX_COLOR

\* C2: when no cube of the scene reports a hit for the ray, cast_ray at depth
\* 0..3 returns the sky colour and makes no recursive call and no cast_shadow
\* call.
C2_MissIsSky ==
    Done =>
        \A inv \in Invocations(out) :
            inv.depth <= 3 /\ Hitting(inv) = {} =>
                /\ inv.color = SKYBOX_COLOR
                /\ inv.calls = <<>>
                /\ inv.shadows = <<>>

\* The ray has missed both cubes of a lit scene.
C2_Witness ==
    /\ Done
    /\ inp.depth <= 3
    /\ Len(inp.objects) = 2
    /\ inp.lights # <<>>
    /\ Hitting(out) = {}
    /\ out.scanned = 2
    /\ out.color = SKYBOX_COLOR

\* C10 (as claimed): the hit cast_ray shades is that of a cube whose reported
\* distance is <= that of every intersecting cube, the earliest in scene
\* order among those tied at that distance; with no intersecting cube there
\* is no hit.
C10_NearestFirst ==
    Done =>
        \A inv \in Invocations(out) :
            inv.depth <= 3 =>
                IF Hitting(inv) = {} THEN inv.selected = 0
                ELSE /\ inv.selected \in Hitting(inv)
                     /\ inv.intersect = Reported(inv, inv.selected)
                     /\ \A j \in Hitting(inv) :
                           /\ FLe(inv.intersect.distance, Reported(inv, j).distance)
                           /\ FEq(inv.intersect.distance, Reported(inv, j).distance)
                                 => inv.selected <= j

\* a/b <= c/d for b, d > 0, without forming the cross products.
RECURSIVE LeFrac(_, _, _, _)
LeFrac(a, b, c, d) ==
    LET qa == a \div b
        qc == c \div d
        ra == a - qa * b
        rc == c - qc * d
    IN  IF qa # qc THEN qa < qc
        ELSE IF ra = 0 THEN TRUE
        ELSE IF rc = 0 THEN FALSE
        ELSE LeFrac(d, rc, b, ra)

\* The bounds <<lower, upper>> (fractions <<n, d>>) that one axis puts on the
\* parameter s of the point from + s (to - from) for it to lie in the slab
\* [lo, hi]; all four in grid units, to # from.
SegmentSlab(lo, hi, from, to) ==
    IF to > from THEN << <<lo - from, to - from>>, <<hi - from, to - from>> >>
    ELSE << <<from - hi, from - to>>, <<from - lo, from - to>> >>

\* Some point of the segment from..to lies in the box (faces included).
SegmentCrosses(cube, from, to) ==
    LET moving == { a \in Axes : Comp(to, a).v # Comp(from, a).v }
        bounds == { SegmentSlab(Comp(cube.min, a).v, Comp(cube.max, a).v,
                                Comp(from, a).v, Comp(to, a).v) : a \in moving }
                     \cup { << <<0, 1>>, <<1, 1>> >> }
    IN  /\ \A a \in Axes \ moving :
              Comp(cube.min, a).v <= Comp(from, a).v /\ Comp(from, a).v <= Comp(cube.max, a).v
        /\ \A l \in bounds, u \in bounds : LeFrac(l[1][1], l[1][2], u[2][1], u[2][2])

\* The origin of the shadow ray cast_shadow builds for a hit and a light.
ShadowOrigin(intersect, light) ==
    offset_origin(intersect, VNormalize(VSub(light.position, intersect.point)))

\* The invocations that shaded an opaque hit.
Lit(inv) == inv.selected # 0 /\ Len(inv.shadows) = Len(inp.lights)

\* Ratios hitDistance / lightDistance of [0, 1] and beyond, as pairs.
ShadowRatios == { <<h, l>> \in (0..6) \X (1..4) : TRUE }

\* C4 (as claimed): cast_shadow returns exactly 0 when no cube is crossed by
\* the segment from the offset shadow-ray origin to the light, and the value
\* returned for an occluder does not increase as hitDistance/lightDistance
\* grows over [0, 1].
C4_ShadowZeroWithoutOccluder ==
    /\ \A p \in ShadowRatios, q \in ShadowRatios :
          /\ p[1] <= p[2] /\ q[1] <= q[2]
          /\ p[1] * q[2] <= q[1] * p[2]
          => FGe(shadow_value(Fin(p[1] * Scale), Fin(p[2] * Scale)),
                 shadow_value(Fin(q[1] * Scale), Fin(q[2] * Scale)))
    /\ Done =>
          \A inv \in Invocations(out) :
              Lit(inv) =>
                  \A i \in 1..Len(inp.lights) :
                      (\A c \in 1..Len(inp.objects) :
                           ~SegmentCrosses(inp.objects[c],
                                           ShadowOrigin(inv.intersect, inp.lights[i]),
                                           inp.lights[i].position))
                      => inv.shadows[i].intensity = Zero

\* The invocations that selected a hit.
Shaded(inv) == inv.depth <= 3 /\ inv.selected # 0

\* The diffuse plus the specular term of one light for a hit seen from
\* view_dir, with the surface colour the diffuse term scales.
LightTerms(intersect, view_dir, light, shadow_intensity, surface) ==
    LET light_dir == VNormalize(VSub(light.position, intersect.point))
        reflect_dir == VNormalize(reflect(VNeg(light_dir), intersect.normal))
        light_intensity == FMul(light.intensity, FSub(One, shadow_intensity))
        diffuse_intensity == FMin(FMax(VDot(intersect.normal, light_dir), Zero), One)
        specular_intensity == FPowf(FMax(VDot(view_dir, reflect_dir), Zero),
                                    intersect.material.specular)
    IN  ColorAdd(ColorMul(ColorMul(ColorMul(surface, intersect.material.albedo[1]),
                                   diffuse_intensity), light_intensity),
                 ColorMul(ColorMul(ColorMul(light.color, intersect.material.albedo[2]),
                                   specular_intensity), light_intensity))

\* The base colour plus the terms of lights 1..n, every diffuse term scaling
\* the base colour.
RECURSIVE BasePlusTerms(_, _)
BasePlusTerms(inv, n) ==
    IF n = 0 THEN base_color(inv.intersect)
    ELSE ColorAdd(BasePlusTerms(inv, n - 1),
                  LightTerms(inv.intersect,
                             VNormalize(VSub(inv.ray_origin, inv.intersect.point)),
                             inp.lights[n], inv.shadows[n].intensity,
                             base_color(inv.intersect)))

\* The refraction branch as claimed: one recursive call at depth + 1, no
\* light and no shadow ray, base * albedo[0] + recursive colour * albedo[3].
RefractionBranch(inv) ==
    /\ Len(inv.calls) = 1
    /\ inv.calls[1].depth = inv.depth + 1
    /\ inv.shadows = <<>>
    /\ inv.color = ColorAdd(ColorMul(base_color(inv.intersect),
                                     inv.intersect.material.albedo[1]),
                            ColorMul(inv.calls[1].color, inv.intersect.material.albedo[4]))

\* The lights of the lighting branch: no recursive call, one cast_shadow call
\* for each light, in list order.
EveryLightOnce(inv) ==
    /\ inv.calls = <<>>
    /\ Len(inv.shadows) = Len(inp.lights)
    /\ \A i \in 1..Len(inp.lights) :
          inv.shadows[i] = cast_shadow(inv.intersect, inp.lights[i], inp.objects)

\* C11 (as claimed): a hit of refractive_index > 1.0 makes exactly one
\* recursive call at depth + 1, evaluates no light and no shadow ray and
\* returns base * albedo[0] + recursive colour * albedo[3]; a hit of
\* refractive_index <= 1.0 makes no recursive call, evaluates every light once
\* in list order with one cast_shadow call each, and returns the base colour
\* plus the sum of the lights' diffuse and specular terms.
C11_MaterialBranch ==
    Done =>
        \A inv \in Invocations(out) :
            Shaded(inv) =>
                IF FGt(inv.intersect.material.refractive_index, One)
                THEN RefractionBranch(inv)
                ELSE /\ EveryLightOnce(inv)
                     /\ inv.color = BasePlusTerms(inv, Len(inp.lights))

\* The distance from the hit of an invocation to light i.
LightDistance(inv, i) == VMagnitude(VSub(inp.lights[i].position, inv.intersect.point))

\* What cube c reports for the shadow ray of an invocation towards light i.
ShadowHit(inv, i, c) ==
    ray_intersect(inp.objects[c], ShadowOrigin(inv.intersect, inp.lights[i]),
                  VNormalize(VSub(inp.lights[i].position, inv.intersect.point)))

\* The cubes whose shadow-ray intersection is strictly nearer than light i.
Occluders(inv, i) ==
    { c \in 1..Len(inp.objects) :
        LET shadow_intersect == ShadowHit(inv, i, c)
        IN  /\ shadow_intersect.is_intersecting
            /\ FLt(shadow_intersect.distance, LightDistance(inv, i)) }

\* The first of a non-empty set of cube indices in scan order.
First(S) == CHOOSE c \in S : \A d \in S : c <= d

\* 1 - min(1, hitDistance / lightDistance)^2
SoftShadow(hitDistance, lightDistance) ==
    LET ratio == FMin(One, FDiv(hitDistance, lightDistance))
    IN  FSub(One, FMul(ratio, ratio))

\* C12: cast_shadow returns at the first cube in scene order whose shadow-ray
\* intersection is strictly nearer than the light, with the value
\* 1 - min(1, hitDistance/lightDistance)^2 of that cube alone and without
\* examining the cubes after it; when no cube qualifies every cube has been
\* examined and the value is 0.
C12_FirstOccluderWins ==
    Done =>
        \A inv \in Invocations(out) :
            Lit(inv) =>
                \A i \in 1..Len(inp.lights) :
                    LET qualifying == Occluders(inv, i)
                        shadow == inv.shadows[i]
                    IN  IF qualifying = {}
                        THEN /\ shadow.intensity = Zero
                             /\ shadow.occluder = 0
                             /\ shadow.tested = Len(inp.objects)
                        ELSE /\ shadow.occluder = First(qualifying)
                             /\ shadow.tested = First(qualifying)
                             /\ shadow.intensity =
                                   SoftShadow(ShadowHit(inv, i, First(qualifying)).distance,
                                              LightDistance(inv, i))

\* Two cubes occlude a light: the first in scene order lies between the point
\* and the light, the second reports a smaller distance, and cast_shadow has
\* returned the value of the first without examining the second.
C12_Witness ==
    /\ Done
    /\ Lit(out)
    /\ \E i \in 1..Len(inp.lights) :
          /\ Occluders(out, i) = {1, 2}
          /\ FGt(ShadowHit(out, i, 1).distance, Zero)
          /\ FLt(ShadowHit(out, i, 2).distance, ShadowHit(out, i, 1).distance)
          /\ out.shadows[i].tested = 1
          /\ out.shadows[i].intensity =
                SoftShadow(ShadowHit(out, i, 1).distance, LightDistance(out, i))
          /\ out.shadows[i].intensity #
                SoftShadow(ShadowHit(out, i, 2).distance, LightDistance(out, i))

-----------------------------------------------------------------------------
(* Specification of the main loop rendering one pixel while key U moves the *)
(* light towards the box: render, move the light by 0.1 along z, render.    *)

\* lights[0].position.z += 0.1
LIGHT_STEP == 1000

\* Diffuse colours and specular exponents of the box's material.
EndDiffuse == {ColorBlack, Color(200, 30, 30), Color(40, 40, 250)}

EndSpecular == {Zero, Fin(10 * Scale)}

EndBox(diffuse, specular) ==
    Cube(V(-5000, -5000, -5000), V(5000, 5000, 5000),
         Material(diffuse, specular, <<Fin(9000), Fin(1000), Zero, Zero>>, Zero, None))

InitEndToEnd ==
    /\ pc = "render"
    /\ inp \in { [objects |-> <<EndBox(d, e)>>,
                  lights |-> <<Light(V(0, 0, -50000), Color(255, 255, 255), One)>>,
                  ray_origin |-> V(0, 0, -100000),
                  ray_direction |-> V(0, 0, Scale),
                  depth |-> 0] : d \in EndDiffuse, e \in EndSpecular }
    /\ out = [prev |-> NoInvocation, cur |-> NoInvocation]

\* render: the pixel's colour is cast_ray of the primary ray at depth 0.
Render ==
    /\ pc = "render"
    /\ out' = [prev |-> out.cur,
               cur |-> cast_ray(inp.ray_origin, inp.ray_direction, inp.objects, inp.lights,
                                inp.depth)]
    /\ pc' = "input"
    /\ UNCHANGED inp

\* Key U, while the light is still in front of the box after the move.
MoveLightCloser ==
    /\ pc = "input"
    /\ LET z == inp.lights[1].position.z.v + LIGHT_STEP
       IN  /\ z < inp.objects[1].min.z.v
           /\ inp' = [inp EXCEPT !.lights[1].position.z = Fin(z)]
    /\ pc' = "render"
    /\ UNCHANGED out

NextEndToEnd == Render \/ MoveLightCloser

SpecEndToEnd == InitEndToEnd /\ [][NextEndToEnd]_vars

\* No channel of a is below that of b and one is above.
Brighter(a, b) ==
    /\ FGe(a.r, b.r) /\ FGe(a.g, b.g) /\ FGe(a.b, b.b)
    /\ FGt(a.r, b.r) \/ FGt(a.g, b.g) \/ FGt(a.b, b.b)

\* C8: the primary ray from (0,0,-10) towards the centre of the box returns a
\* lit colour that is not the sky colour, and each time the light has moved
\* closer to the box along the z axis the colour returned is brighter than
\* the one returned before.
C8_BrighterAsLightApproaches ==
    pc = "input" =>
        /\ out.cur.selected = 1
        /\ out.cur.color # SKYBOX_COLOR
        /\ Brighter(out.cur.color, inp.objects[1].material.diffuse)
        /\ out.prev # NoInvocation => Brighter(out.cur.color, out.prev.color)

\* The light has moved from (0,0,-5) to (0,0,-1) and the pixel was rendered
\* again, brighter than at the previous position.
C8_Witness ==
    /\ pc = "input"
    /\ inp.lights[1].position = V(0, 0, -10000)
    /\ out.prev # NoInvocation
    /\ out.cur.shadows # <<>>
    /\ Brighter(out.cur.color, out.prev.color)

=============================================================================
